---- MODULE Spec2Model ----
(***************************************************************************)
(* Model of hook-editor.py: the TikTokEditor batch driver, its caption     *)
(* selector over a remote spreadsheet, the trim planner and the three      *)
(* render tiers.                                                           *)
(*                                                                         *)
(* Durations are fixed-point milliseconds.  Strings are TLA+ strings; the  *)
(* Python str methods used by the code (strip, lower, upper, capitalize)   *)
(* are tabulated on the strings that occur in the model.                   *)
(***************************************************************************)
EXTENDS Integers, Sequences, FiniteSets, TLC

VARIABLES
    GOOGLE_SHEETS_AVAILABLE, \* module global set by the guarded import
    sheet,             \* the remote worksheet: row 1 the headers, then the data rows
    inputDir,          \* names of the files in input-videos/
    typeOrder,         \* iteration order of the set self.valid_types in this process
    pc,                \* position of main()/run()
    video_files,       \* run(): the sorted list of video files
    idx,               \* run(): loop counter i
    successful_videos, \* run(): names processed successfully
    failed_videos,     \* run(): names that failed
    video_type,        \* process_single_video(): inferred type, or None
    overlay_text,      \* process_single_video(): selected caption, or None
    original_duration, \* process_single_video(): probed duration (ms)
    trimmed_duration,  \* process_single_video(): planned duration (ms)
    textFile,          \* whether overlay_text.txt exists
    outputs,           \* files in output-videos/: [path, src]
    exitStatus,        \* status passed to sys.exit, or None
    selMsg,            \* what the last find_next_overlay_text call printed
    vid,               \* history of the video being (or last) processed
    stats,             \* history: calls made since the process started
    inst               \* instances running against the same sheet at once
                       \* (none in a single run): each one's selector call

vars == <<GOOGLE_SHEETS_AVAILABLE, sheet, inputDir, typeOrder, pc, video_files,
          idx, successful_videos, failed_videos, video_type, overlay_text,
          original_duration, trimmed_duration, textFile, outputs, exitStatus,
          selMsg, vid, stats, inst>>

None == "None"

----------------------------------------------------------------------------
(* Bounds of the model *)

MaxRows == 2        \* data rows of the sheet
MaxFiles == 2       \* files in the input directory
MaxDurSteps == 4    \* probed durations are 0 .. MaxDurSteps quarter seconds

----------------------------------------------------------------------------
(* Python str methods, on the strings of the model *)

Strip(s) ==
    CASE s = "sad "      -> "sad"
      [] s = " false"    -> "false"
      [] s = " Miss you " -> "Miss you"
      [] s = " type"     -> "type"
      [] OTHER           -> s

Lower(s) ==
    CASE s = "Sad"       -> "sad"
      [] s = "Romantic"  -> "romantic"
      [] s = "Crying"    -> "crying"
      [] s = "Confused"  -> "confused"
      [] s = "Surprised" -> "surprised"
      [] s = "Used?"     -> "used?"
      [] s = ".MOV"      -> ".mov"
      [] s = "Romantic_SAD" -> "romantic_sad"
      [] OTHER           -> s

Upper(s) ==
    CASE s = "false"     -> "FALSE"
      [] s = "true"      -> "TRUE"
      [] OTHER           -> s

Capitalize(s) ==
    CASE s = "sad"       -> "Sad"
      [] s = "romantic"  -> "Romantic"
      [] s = "crying"    -> "Crying"
      [] s = "confused"  -> "Confused"
      [] s = "surprised" -> "Surprised"
      [] OTHER           -> s

Range(f) == {f[i] : i \in DOMAIN f}

----------------------------------------------------------------------------
(* Constants of TikTokEditor.__init__ *)

start_trim == 500
end_trim == 250
video_extensions == {".mp4", ".avi", ".mov", ".mkv", ".flv", ".wmv", ".webm"}
valid_types == {"romantic", "crying", "confused", "surprised", "sad"}
expected_headers == <<"used?", "mentions toffee?", "type", "overlay text">>

----------------------------------------------------------------------------
(* The remote worksheet (gspread) *)

\* worksheet.get_all_records(): one dict per data row, keyed by the header cells.
get_all_records(sh) ==
    [k \in 1..(Len(sh) - 1) |->
        [h \in Range(sh[1]) |->
            sh[k + 1][CHOOSE c \in DOMAIN sh[1] : sh[1][c] = h]]]

\* record.get(key, '')
RecordGet(record, key) == IF key \in DOMAIN record THEN record[key] ELSE ""

\* worksheet.update_cell(row, col, value)
update_cell(sh, row, col, value) ==
    IF row \in DOMAIN sh /\ col \in DOMAIN sh[row]
    THEN [sh EXCEPT ![row][col] = value]
    ELSE sh

\* check_sheet_format without the test for an empty sheet
check_sheet_format_accepting_empty(records) ==
    IF records = <<>> THEN TRUE
    ELSE {Lower(Strip(h)) : h \in DOMAIN records[1]}
            = {Lower(Strip(h)) : h \in Range(expected_headers)}

\* check_sheet_format, given the records it read
check_sheet_format(records) ==
    IF records = <<>> THEN FALSE
    ELSE LET headers == DOMAIN records[1]
             normalized_headers == {Lower(Strip(h)) : h \in headers}
             expected_normalized == {Lower(Strip(h)) : h \in Range(expected_headers)}
         IN normalized_headers = expected_normalized

----------------------------------------------------------------------------
(* Caption selector: find_next_overlay_text *)

\* the condition of the scan without the test of the used flag
RowMatchesIgnoringUsed(record, vtype) ==
    Lower(Strip(RecordGet(record, "type"))) = Lower(vtype)

\* the condition of the scan, for one record
RowMatches(record, vtype) ==
    LET record_type == Strip(RecordGet(record, "type"))
        record_used == Upper(Strip(RecordGet(record, "used?")))
    IN Lower(record_type) = Lower(vtype) /\ record_used = "FALSE"

\* 1-based position of the first matching record (Python index i = position - 1),
\* or 0 when the scan finishes without a match
FirstMatch(records, vtype) ==
    IF \E k \in DOMAIN records : RowMatches(records[k], vtype)
    THEN CHOOSE k \in DOMAIN records :
            /\ RowMatches(records[k], vtype)
            /\ \A j \in DOMAIN records : RowMatches(records[j], vtype) => k <= j
    ELSE 0

\* a row number that forgets the header row: the data row's own position
RowNumberWithoutHeader(k) == (k - 1) + 1

\* row_number = i + 2, with i = position - 1
RowNumber(k) == (k - 1) + 2

\* Column 1 is 'used?'
UsedColumn == 1

----------------------------------------------------------------------------
(* Files of the input directory *)

\* every file name of the model, in the order sorted() gives paths
\* (code-point order: upper case before lower case)
AllNames == <<"Romantic_SAD.MOV", "clip.mp4", "notes.txt", "sad_01.mov", "sad_01.mp4">>

\* Path.stem
Stem(name) ==
    CASE name = "Romantic_SAD.MOV" -> "Romantic_SAD"
      [] name = "clip.mp4"         -> "clip"
      [] name = "notes.txt"        -> "notes"
      [] name = "sad_01.mov"       -> "sad_01"
      [] name = "sad_01.mp4"       -> "sad_01"

\* Path.suffix
Suffix(name) ==
    CASE name = "Romantic_SAD.MOV" -> ".MOV"
      [] name = "clip.mp4"         -> ".mp4"
      [] name = "notes.txt"        -> ".txt"
      [] name = "sad_01.mov"       -> ".mov"
      [] name = "sad_01.mp4"       -> ".mp4"

\* the Python test  kw in s  (substring), for the lower-cased stems of the model
Contains(s, kw) ==
    \/ s = "romantic_sad" /\ kw \in {"romantic", "sad"}
    \/ s = "sad_01" /\ kw = "sad"

\* find_all_video_files: the files with a video extension, sorted
find_all_video_files(dir) ==
    SelectSeq(AllNames, LAMBDA n : n \in dir /\ Lower(Suffix(n)) \in video_extensions)

\* extract_type_from_filename returning the keyword as it stands in the vocabulary
extract_type_from_filename_uncapitalized(order, filename) ==
    LET hits == {i \in DOMAIN order : Contains(Lower(filename), order[i])}
    IN IF hits = {} THEN None
       ELSE order[CHOOSE i \in hits : \A j \in hits : i <= j]

\* extract_type_from_filename, iterating the set valid_types in the order `order`
extract_type_from_filename(order, filename) ==
    LET filename_lower == Lower(filename)
        hits == {i \in DOMAIN order : Contains(filename_lower, order[i])}
    IN IF hits = {} THEN None
       ELSE Capitalize(order[CHOOSE i \in hits : \A j \in hits : i <= j])

\* output_path = output_dir / f"{input_name}_edited.mp4"
output_path(name) == <<Stem(name), "_edited", ".mp4">>

----------------------------------------------------------------------------
(* Trim planner: calculate_trimmed_duration (milliseconds) *)

Max(a, b) == IF a >= b THEN a ELSE b

\* the planner with the short-video test written  trimmed < 0
calculate_trimmed_duration_strict(d) ==
    LET trimmed == d - start_trim - end_trim
    IN IF trimmed < 0 THEN Max(100, (d * 8) \div 10) ELSE trimmed

calculate_trimmed_duration(d) ==
    LET trimmed == d - start_trim - end_trim
    IN IF trimmed <= 0 THEN Max(100, (d * 8) \div 10) ELSE trimmed

\* what ffprobe can report; 0 is also what get_video_duration returns on failure
Durations == {k * end_trim : k \in 0..MaxDurSteps}

----------------------------------------------------------------------------
(* Render tiers *)

\* tiers that also fall through when running the tool raises
AfterTierFallingOnException(tier, outcome) ==
    CASE outcome = "zero" -> "success"
      [] OTHER ->
            CASE tier = "full"     -> "edit_video_fallback"
              [] tier = "fallback" -> "edit_video_no_text"
              [] OTHER             -> "failure"

\* what follows a tier, by how the external tool ended:
\* "zero" / "nonzero" exit status, or an "exception" raised while running it
AfterTier(tier, outcome) ==
    CASE outcome = "zero"      -> "success"
      [] outcome = "exception" -> "failure"
      [] outcome = "nonzero"   ->
            CASE tier = "full"     -> "edit_video_fallback"
              [] tier = "fallback" -> "edit_video_no_text"
              [] OTHER             -> "failure"

\* cleanup missing from the except branch
TextFileAfterLeakOnException(tier, outcome) == outcome = "exception"

\* whether overlay_text.txt exists once the tool has ended: every path unlinks it
TextFileAfter(tier, outcome) == FALSE

Outcomes == {"zero", "nonzero", "exception"}

----------------------------------------------------------------------------
(* Initial states *)

\* header rows: the expected one, a reordering, one that differs only in case
\* and whitespace, and one with a wrong column
HeaderRows ==
    { expected_headers,
      <<"mentions toffee?", "used?", "type", "overlay text">>,
      <<"Used?", "mentions toffee?", " type", "overlay text">>,
      <<"used?", "notes", "type", "overlay text">> }

\* contents of a data row, by column meaning: an unused row whose cells need
\* normalizing, a used row, and an unused row of another type with no text
RowKinds ==
    { [used |-> " false", type |-> "sad ",     text |-> " Miss you "],
      [used |-> "TRUE",   type |-> "Sad",      text |-> "Old news"],
      [used |-> "FALSE",  type |-> "Romantic", text |-> ""] }

\* a data row laid out under a header row
LayOut(hdr, kind) ==
    [c \in DOMAIN hdr |->
        CASE Lower(Strip(hdr[c])) = "used?"        -> kind.used
          [] Lower(Strip(hdr[c])) = "type"         -> kind.type
          [] Lower(Strip(hdr[c])) = "overlay text" -> kind.text
          [] OTHER                                 -> "FALSE"]

SeqsUpTo(S, n) == UNION {[1..m -> S] : m \in 0..n}

Sheets ==
    {<<hdr>> \o [k \in DOMAIN rows |-> LayOut(hdr, rows[k])] :
        hdr \in HeaderRows, rows \in SeqsUpTo(RowKinds, MaxRows)}

Directories == {d \in SUBSET Range(AllNames) : Cardinality(d) <= MaxFiles}

\* iteration orders of the set valid_types
IterationOrders ==
    { <<"romantic", "crying", "confused", "surprised", "sad">>,
      <<"sad", "surprised", "confused", "crying", "romantic">> }

NoVideo ==
    [name |-> None, type |-> None, sheetBefore |-> <<>>, selCalls |-> 0, row |-> 0,
     text |-> None, tiers |-> <<>>]

Init ==
    /\ GOOGLE_SHEETS_AVAILABLE \in BOOLEAN
    /\ sheet \in Sheets
    /\ inputDir \in Directories
    /\ typeOrder \in IterationOrders
    /\ pc = "main"
    /\ video_files = <<>>
    /\ idx = 0
    /\ successful_videos = <<>>
    /\ failed_videos = <<>>
    /\ video_type = None
    /\ overlay_text = None
    /\ original_duration = None
    /\ trimmed_duration = None
    /\ textFile = FALSE
    /\ outputs = {}
    /\ exitStatus = None
    /\ selMsg = None
    /\ vid = NoVideo
    /\ stats = [startup |-> "pending", abortedAt |-> None, sheet0 |-> sheet,
                selects |-> 0, probes |-> 0, renders |-> 0, writes |-> 0,
                returned |-> <<>>]
    /\ inst = <<>>

----------------------------------------------------------------------------
(* main() and run() *)

\* main() ignoring what run() returned
ReturnZero(success) ==
    /\ pc' = "exited"
    /\ exitStatus' = 0

\* run() returns `success` and main() passes 0 or 1 to sys.exit
Return(success) ==
    /\ pc' = "exited"
    /\ exitStatus' = IF success THEN 0 ELSE 1

\* a loop that stops at the first video that fails
RecordStoppingOnFailure(success) ==
    LET name == video_files[idx]
    IN /\ successful_videos' =
            IF success THEN Append(successful_videos, name) ELSE successful_videos
       /\ failed_videos' =
            IF success THEN failed_videos ELSE Append(failed_videos, name)
       /\ idx' = idx + 1
       /\ pc' = IF idx + 1 > Len(video_files) \/ ~success
                THEN "summary" ELSE "process_single_video"
       /\ video_type' = None
       /\ overlay_text' = None
       /\ original_duration' = None
       /\ trimmed_duration' = None

\* run(): the bookkeeping of the loop once process_single_video has returned
Record(success) ==
    LET name == video_files[idx]
    IN /\ successful_videos' =
            IF success THEN Append(successful_videos, name) ELSE successful_videos
       /\ failed_videos' =
            IF success THEN failed_videos ELSE Append(failed_videos, name)
       /\ idx' = idx + 1
       /\ pc' = IF idx + 1 > Len(video_files) THEN "summary" ELSE "process_single_video"
       /\ video_type' = None
       /\ overlay_text' = None
       /\ original_duration' = None
       /\ trimmed_duration' = None

\* main(): the import check before the editor is built
Main ==
    /\ pc = "main"
    /\ IF GOOGLE_SHEETS_AVAILABLE
       THEN pc' = "check_dependencies" /\ UNCHANGED <<exitStatus, stats>>
       ELSE Return(FALSE)
            /\ stats' = [stats EXCEPT !.startup = "failed", !.abortedAt = pc]
    /\ UNCHANGED <<inst, GOOGLE_SHEETS_AVAILABLE, sheet, inputDir, typeOrder, video_files,
                   idx, successful_videos, failed_videos, video_type, overlay_text,
                   original_duration, trimmed_duration, textFile, outputs, selMsg, vid>>

\* one startup check of run(): on failure run() returns False at once
StartupCheck(ok, next) ==
    /\ IF ok
       THEN pc' = next /\ UNCHANGED <<exitStatus>>
            /\ stats' = IF next = "find_all_video_files"
                        THEN [stats EXCEPT !.startup = "passed"] ELSE stats
       ELSE Return(FALSE)
            /\ stats' = [stats EXCEPT !.startup = "failed", !.abortedAt = pc]
    /\ UNCHANGED <<inst, GOOGLE_SHEETS_AVAILABLE, sheet, inputDir, typeOrder, video_files,
                   idx, successful_videos, failed_videos, video_type, overlay_text,
                   original_duration, trimmed_duration, textFile, outputs, selMsg, vid>>

\* check_dependencies: ffmpeg on the PATH and the sheets libraries imported
CheckDependencies ==
    /\ pc = "check_dependencies"
    /\ \E ffmpeg \in BOOLEAN :
          StartupCheck(ffmpeg /\ GOOGLE_SHEETS_AVAILABLE, "setup_google_sheets")

\* setup_google_sheets: credentials file present and authorisation succeeds
SetupGoogleSheets ==
    /\ pc = "setup_google_sheets"
    /\ \E credentials \in BOOLEAN, authorized \in BOOLEAN :
          StartupCheck(credentials /\ authorized, "connect_to_sheet")

\* connect_to_sheet: a sheet id is known and the spreadsheet opens
ConnectToSheet ==
    /\ pc = "connect_to_sheet"
    /\ \E sheet_id \in BOOLEAN, opened \in BOOLEAN :
          StartupCheck(sheet_id /\ opened, "check_sheet_format")

\* check_sheet_format: the read may raise; otherwise the headers decide
CheckSheetFormat ==
    /\ pc = "check_sheet_format"
    /\ \E readOk \in BOOLEAN :
          StartupCheck(readOk /\ check_sheet_format(get_all_records(sheet)),
                       "find_all_video_files")

\* run(): enumerate the input directory; no video file ends the run
FindAllVideoFiles ==
    /\ pc = "find_all_video_files"
    /\ video_files' = find_all_video_files(inputDir)
    /\ IF video_files' = <<>>
       THEN Return(FALSE) /\ UNCHANGED idx
       ELSE pc' = "process_single_video" /\ idx' = 1 /\ UNCHANGED exitStatus
    /\ UNCHANGED <<inst, GOOGLE_SHEETS_AVAILABLE, sheet, inputDir, typeOrder,
                   successful_videos, failed_videos, video_type, overlay_text,
                   original_duration, trimmed_duration, textFile, outputs, selMsg,
                   vid, stats>>

\* process_single_video, up to the type inference
ProcessSingleVideo ==
    /\ pc = "process_single_video"
    /\ LET name == video_files[idx]
           vt == extract_type_from_filename(typeOrder, Stem(name))
       IN /\ vid' = [NoVideo EXCEPT !.name = name, !.type = vt, !.sheetBefore = sheet]
          /\ IF vt = None
             THEN Record(FALSE)
             ELSE /\ video_type' = vt
                  /\ pc' = "find_next_overlay_text"
                  /\ UNCHANGED <<idx, successful_videos, failed_videos, overlay_text,
                                 original_duration, trimmed_duration>>
    /\ UNCHANGED <<inst, GOOGLE_SHEETS_AVAILABLE, sheet, inputDir, typeOrder, video_files,
                   textFile, outputs, exitStatus, selMsg, stats>>

\* a selector whose failed update_cell is swallowed: the text of the row found
\* is returned although the write raised
FindNextOverlayTextSwallowingWriteError ==
    /\ pc = "find_next_overlay_text"
    /\ \E remote \in {"ok", "read_error", "write_error"} :
        LET records == get_all_records(sheet)
            k == IF remote = "read_error" THEN 0 ELSE FirstMatch(records, video_type)
            written == k # 0 /\ remote = "ok"
            result == IF k # 0
                      THEN Strip(RecordGet(records[k], "overlay text"))
                      ELSE None
        IN /\ sheet' = IF written
                       THEN update_cell(sheet, RowNumber(k), UsedColumn, "TRUE")
                       ELSE sheet
           /\ selMsg' = IF written THEN "found"
                        ELSE IF remote = "read_error" \/ k # 0 THEN "error"
                        ELSE "none"
           /\ vid' = [vid EXCEPT !.selCalls = @ + 1, !.row = IF written THEN k ELSE 0,
                                 !.text = result]
           /\ stats' = [stats EXCEPT !.selects = @ + 1,
                                     !.writes = IF written THEN @ + 1 ELSE @,
                                     !.returned = IF written THEN Append(@, k) ELSE @]
           /\ IF result \in {None, ""}
              THEN Record(FALSE)
              ELSE /\ overlay_text' = result
                   /\ pc' = "get_video_duration"
                   /\ UNCHANGED <<idx, successful_videos, failed_videos, video_type,
                                  original_duration, trimmed_duration>>
    /\ UNCHANGED <<inst, GOOGLE_SHEETS_AVAILABLE, inputDir, typeOrder, video_files,
                   textFile, outputs, exitStatus>>

\* find_next_overlay_text and the test of its result in process_single_video.
\* remote: both calls succeed, or get_all_records raises, or update_cell raises
FindNextOverlayText ==
    /\ pc = "find_next_overlay_text"
    /\ \E remote \in {"ok", "read_error", "write_error"} :
        LET records == get_all_records(sheet)
            k == IF remote = "read_error" THEN 0 ELSE FirstMatch(records, video_type)
            written == k # 0 /\ remote = "ok"
            result == IF written
                      THEN Strip(RecordGet(records[k], "overlay text"))
                      ELSE None
        IN /\ sheet' = IF written
                       THEN update_cell(sheet, RowNumber(k), UsedColumn, "TRUE")
                       ELSE sheet
           /\ selMsg' = IF written THEN "found"
                        ELSE IF remote = "read_error" \/ k # 0 THEN "error"
                        ELSE "none"
           /\ vid' = [vid EXCEPT !.selCalls = @ + 1, !.row = IF written THEN k ELSE 0,
                                 !.text = result]
           /\ stats' = [stats EXCEPT !.selects = @ + 1,
                                     !.writes = IF written THEN @ + 1 ELSE @,
                                     !.returned = IF written THEN Append(@, k) ELSE @]
           /\ IF result \in {None, ""}
              THEN Record(FALSE)
              ELSE /\ overlay_text' = result
                   /\ pc' = "get_video_duration"
                   /\ UNCHANGED <<idx, successful_videos, failed_videos, video_type,
                                  original_duration, trimmed_duration>>
    /\ UNCHANGED <<inst, GOOGLE_SHEETS_AVAILABLE, inputDir, typeOrder, video_files,
                   textFile, outputs, exitStatus>>

\* get_video_duration (0 when the probe fails) and calculate_trimmed_duration
GetVideoDuration ==
    /\ pc = "get_video_duration"
    /\ \E d \in Durations :
          /\ original_duration' = d
          /\ trimmed_duration' = calculate_trimmed_duration(d)
    /\ pc' = "edit_video_with_text"
    /\ stats' = [stats EXCEPT !.probes = @ + 1]
    /\ UNCHANGED <<inst, GOOGLE_SHEETS_AVAILABLE, sheet, inputDir, typeOrder, video_files,
                   idx, successful_videos, failed_videos, video_type, overlay_text,
                   textFile, outputs, exitStatus, selMsg, vid>>

\* lower tiers called with a duration planned again from the planned one
EnterTierReplanned(tier, text, dur, running) ==
    /\ vid' = [vid EXCEPT !.tiers =
                  Append(@, [tier |-> tier, text |-> text,
                             dur |-> IF tier = "full" THEN dur
                                     ELSE calculate_trimmed_duration(dur),
                             path |-> output_path(video_files[idx]),
                             exit |-> "running"])]
    /\ stats' = [stats EXCEPT !.renders = @ + 1]
    /\ textFile' = IF tier = "no_text" THEN textFile ELSE TRUE
    /\ pc' = running

\* a tier is entered: its arguments are noted, and the caption file is written
\* by the two tiers that draw text
EnterTier(tier, text, dur, running) ==
    /\ vid' = [vid EXCEPT !.tiers =
                  Append(@, [tier |-> tier, text |-> text, dur |-> dur,
                             path |-> output_path(video_files[idx]),
                             exit |-> "running"])]
    /\ stats' = [stats EXCEPT !.renders = @ + 1]
    /\ textFile' = IF tier = "no_text" THEN textFile ELSE TRUE
    /\ pc' = running

\* the external tool has ended: clean up, then succeed, fail or fall to the next tier
LeaveTier(tier, outcome) ==
    LET after == AfterTier(tier, outcome)
    IN /\ textFile' = IF tier = "no_text" THEN textFile ELSE TextFileAfter(tier, outcome)
       /\ vid' = [vid EXCEPT !.tiers[Len(vid.tiers)].exit = outcome]
       /\ outputs' = IF outcome = "zero"
                     THEN {o \in outputs : o.path # output_path(video_files[idx])}
                          \cup {[path |-> output_path(video_files[idx]),
                                 src |-> video_files[idx]]}
                     ELSE outputs
       /\ IF after \in {"success", "failure"}
          THEN Record(after = "success")
          ELSE /\ pc' = after
               /\ UNCHANGED <<idx, successful_videos, failed_videos, video_type,
                              overlay_text, original_duration, trimmed_duration>>

\* edit_video_with_text: caption file written, ffmpeg about to run
EditVideoWithText ==
    /\ pc = "edit_video_with_text"
    /\ EnterTier("full", overlay_text, trimmed_duration, "full_running")
    /\ UNCHANGED <<inst, GOOGLE_SHEETS_AVAILABLE, sheet, inputDir, typeOrder, video_files,
                   idx, successful_videos, failed_videos, video_type, overlay_text,
                   original_duration, trimmed_duration, outputs, exitStatus, selMsg>>

\* edit_video_with_text: ffmpeg has ended
FullRenderEnds ==
    /\ pc = "full_running"
    /\ \E outcome \in Outcomes : LeaveTier("full", outcome)
    /\ UNCHANGED <<inst, GOOGLE_SHEETS_AVAILABLE, sheet, inputDir, typeOrder, video_files,
                   exitStatus, selMsg, stats>>

\* edit_video_fallback: caption file written again, ffmpeg about to run
EditVideoFallback ==
    /\ pc = "edit_video_fallback"
    /\ EnterTier("fallback", overlay_text, trimmed_duration, "fallback_running")
    /\ UNCHANGED <<inst, GOOGLE_SHEETS_AVAILABLE, sheet, inputDir, typeOrder, video_files,
                   idx, successful_videos, failed_videos, video_type, overlay_text,
                   original_duration, trimmed_duration, outputs, exitStatus, selMsg>>

\* edit_video_fallback: ffmpeg has ended
FallbackRenderEnds ==
    /\ pc = "fallback_running"
    /\ \E outcome \in Outcomes : LeaveTier("fallback", outcome)
    /\ UNCHANGED <<inst, GOOGLE_SHEETS_AVAILABLE, sheet, inputDir, typeOrder, video_files,
                   exitStatus, selMsg, stats>>

\* edit_video_no_text: ffmpeg about to run, no caption file
EditVideoNoText ==
    /\ pc = "edit_video_no_text"
    /\ EnterTier("no_text", None, trimmed_duration, "no_text_running")
    /\ UNCHANGED <<inst, GOOGLE_SHEETS_AVAILABLE, sheet, inputDir, typeOrder, video_files,
                   idx, successful_videos, failed_videos, video_type, overlay_text,
                   original_duration, trimmed_duration, outputs, exitStatus, selMsg>>

\* edit_video_no_text: ffmpeg has ended
NoTextRenderEnds ==
    /\ pc = "no_text_running"
    /\ \E outcome \in Outcomes : LeaveTier("no_text", outcome)
    /\ UNCHANGED <<inst, GOOGLE_SHEETS_AVAILABLE, sheet, inputDir, typeOrder, video_files,
                   exitStatus, selMsg, stats>>

\* run(): the summary, and the value run() returns
Summary ==
    /\ pc = "summary"
    /\ Return(Len(successful_videos) > 0)
    /\ UNCHANGED <<inst, GOOGLE_SHEETS_AVAILABLE, sheet, inputDir, typeOrder, video_files,
                   idx, successful_videos, failed_videos, video_type, overlay_text,
                   original_duration, trimmed_duration, textFile, outputs, selMsg,
                   vid, stats>>

Next ==
    \/ Main
    \/ CheckDependencies
    \/ SetupGoogleSheets
    \/ ConnectToSheet
    \/ CheckSheetFormat
    \/ FindAllVideoFiles
    \/ ProcessSingleVideo
    \/ FindNextOverlayText
    \/ GetVideoDuration
    \/ EditVideoWithText
    \/ FullRenderEnds
    \/ EditVideoFallback
    \/ FallbackRenderEnds
    \/ EditVideoNoText
    \/ NoTextRenderEnds
    \/ Summary

Spec == Init /\ [][Next]_vars

----------------------------------------------------------------------------
(* Two instances against one sheet: find_next_overlay_text as its two remote  *)
(* calls, get_all_records and update_cell, with no lock between them          *)

Instances == {1, 2}

\* the row update_cell is called for, decided again against the sheet as it is
\* at the write (a compare-and-swap the code does not have)
MarkedRowRechecked(sh, records, vtype, k) ==
    IF RowMatches(get_all_records(sh)[k], vtype) THEN k ELSE 0

\* the row update_cell is called for: the one the scan of the records found;
\* the sheet is not read again
MarkedRow(sh, records, vtype, k) == k

Idle(vtype) ==
    [pc |-> "read", type |-> vtype, records |-> <<>>, k |-> 0, row |-> 0,
     result |-> None]

InitConcurrent ==
    /\ GOOGLE_SHEETS_AVAILABLE = TRUE
    /\ sheet \in {sh \in Sheets : check_sheet_format(get_all_records(sh))}
    /\ inst \in [Instances -> {Idle(Capitalize(t)) : t \in {"sad", "romantic"}}]
    /\ inputDir = {}
    /\ typeOrder = <<>>
    /\ pc = "find_next_overlay_text"
    /\ video_files = <<>>
    /\ idx = 0
    /\ successful_videos = <<>>
    /\ failed_videos = <<>>
    /\ video_type = None
    /\ overlay_text = None
    /\ original_duration = None
    /\ trimmed_duration = None
    /\ textFile = FALSE
    /\ outputs = {}
    /\ exitStatus = None
    /\ selMsg = None
    /\ vid = NoVideo
    /\ stats = [startup |-> "passed", abortedAt |-> None, sheet0 |-> sheet,
                selects |-> 0, probes |-> 0, renders |-> 0, writes |-> 0,
                returned |-> <<>>]

\* find_next_overlay_text of instance i: get_all_records and the scan
InstanceReads(i) ==
    /\ inst[i].pc = "read"
    /\ LET records == get_all_records(sheet)
           k == FirstMatch(records, inst[i].type)
       IN inst' = [inst EXCEPT ![i].records = records, ![i].k = k,
                               ![i].pc = IF k = 0 THEN "done" ELSE "write"]
    /\ UNCHANGED <<GOOGLE_SHEETS_AVAILABLE, sheet, inputDir, typeOrder, pc,
                   video_files, idx, successful_videos, failed_videos, video_type,
                   overlay_text, original_duration, trimmed_duration, textFile,
                   outputs, exitStatus, selMsg, vid, stats>>

\* find_next_overlay_text of instance i: update_cell, then the text is returned
InstanceWrites(i) ==
    /\ inst[i].pc = "write"
    /\ LET m == MarkedRow(sheet, inst[i].records, inst[i].type, inst[i].k)
       IN /\ sheet' = IF m = 0 THEN sheet
                      ELSE update_cell(sheet, RowNumber(m), UsedColumn, "TRUE")
          /\ inst' = [inst EXCEPT
                ![i].pc = "done",
                ![i].row = m,
                ![i].result = IF m = 0 THEN None
                              ELSE Strip(RecordGet(inst[i].records[m], "overlay text"))]
          /\ stats' = [stats EXCEPT !.selects = @ + 1,
                                    !.writes = IF m = 0 THEN @ ELSE @ + 1,
                                    !.returned = IF m = 0 THEN @ ELSE Append(@, m)]
    /\ UNCHANGED <<GOOGLE_SHEETS_AVAILABLE, inputDir, typeOrder, pc, video_files,
                   idx, successful_videos, failed_videos, video_type, overlay_text,
                   original_duration, trimmed_duration, textFile, outputs,
                   exitStatus, selMsg, vid>>

NextConcurrent ==
    \/ \E i \in Instances : InstanceReads(i)
    \/ \E i \in Instances : InstanceWrites(i)

SpecConcurrent == InitConcurrent /\ [][NextConcurrent]_vars

----------------------------------------------------------------------------
(* The sheet as the claims read it: columns found by their normalized header *)

ColumnNamed(sh, h) == CHOOSE c \in DOMAIN sh[1] : Lower(Strip(sh[1][c])) = h

\* data row k (sheet row k + 1) has the given type and a used flag that
\* normalizes to false
UnusedRowOfType(sh, k, vtype) ==
    /\ Lower(Strip(sh[k + 1][ColumnNamed(sh, "type")])) = Lower(vtype)
    /\ Upper(Strip(sh[k + 1][ColumnNamed(sh, "used?")])) = "FALSE"

DataRows(sh) == 1..(Len(sh) - 1)

UnusedRowsOfType(sh, vtype) == {k \in DataRows(sh) : UnusedRowOfType(sh, k, vtype)}

ChangedCells(before, after) ==
    {rc \in (DOMAIN before) \X (1..4) : before[rc[1]][rc[2]] # after[rc[1]][rc[2]]}

\* the selector has been called for the current video
Selected == vid.selCalls > 0

Processed == Range(successful_videos) \cup Range(failed_videos)

NamePosition(n) == CHOOSE i \in DOMAIN AllNames : AllNames[i] = n

LastTier == vid.tiers[Len(vid.tiers)]

\* positions of run() at which a duration has been probed and planned
TierPositions ==
    {"edit_video_with_text", "full_running", "edit_video_fallback", "fallback_running",
     "edit_video_no_text", "no_text_running"}

----------------------------------------------------------------------------
(* Claims *)

\* C1: once find_next_overlay_text has returned a row, no later call of the same
\* process returns that row again (the rows returned so far are pairwise distinct).
C1_NoRowReturnedTwice ==
    \A i, j \in DOMAIN stats.returned :
        i # j => stats.returned[i] # stats.returned[j]

\* C2: when both remote calls succeed, find_next_overlay_text picks the
\* lowest-indexed data row of the requested type whose used flag normalizes to
\* false, writes TRUE to exactly that row's used cell (sheet row = index + 2) and
\* returns its text; with no such row it returns no text.
C2_SelectsFirstUnusedAndMarksIt ==
    (Selected /\ selMsg \in {"found", "none"}) =>
        LET before == vid.sheetBefore
            rows == UnusedRowsOfType(before, vid.type)
        IN IF rows = {}
           THEN vid.text = None
           ELSE LET k == CHOOSE r \in rows : \A q \in rows : r <= q
                IN /\ vid.row = k
                   /\ vid.text = Strip(before[k + 1][ColumnNamed(before, "overlay text")])
                   /\ sheet = [before EXCEPT ![k + 1][ColumnNamed(before, "used?")] = "TRUE"]

\* C3: when no unused row matches the inferred type, the video is reported
\* failed, no render tier is invoked and no spreadsheet cell changes.
C3_NoCaptionNoRenderNoWrite ==
    (Selected /\ UnusedRowsOfType(vid.sheetBefore, vid.type) = {}) =>
        /\ vid.name \in Range(failed_videos)
        /\ vid.name \notin Range(successful_videos)
        /\ vid.tiers = <<>>
        /\ sheet = vid.sheetBefore
        /\ \A o \in outputs : o.src # vid.name

C3_Witness ==
    /\ Selected
    /\ UnusedRowsOfType(vid.sheetBefore, vid.type) = {}
    /\ UnusedRowsOfType(vid.sheetBefore, "Romantic") # {}
    /\ vid.type = "Sad"
    /\ vid.name \in Range(failed_videos)

\* C4: the planned duration is d - 0.75 s for d > 0.75 s and max(0.1 s, 0.8 d)
\* otherwise, and every duration handed to a render tier is strictly positive.
C4_TrimmedDuration ==
    /\ pc \in TierPositions =>
          /\ original_duration > 750 => trimmed_duration = original_duration - 750
          /\ original_duration <= 750 =>
                trimmed_duration = Max(100, (4 * original_duration) \div 5)
          /\ trimmed_duration > 0
    /\ \A i \in DOMAIN vid.tiers : vid.tiers[i].dur > 0

C4_Witness ==
    /\ pc = "full_running"
    /\ original_duration = 750
    /\ LastTier.dur = 600

\* C5: the tiers of one video run in the order full, fallback, no-text, each at
\* most once; a tier after the first runs only if the one before it exited
\* non-zero; a tier that exits zero is the last and the video succeeds.
C5_TierOrder ==
    LET order == <<"full", "fallback", "no_text">>
    IN /\ Len(vid.tiers) <= 3
       /\ \A i \in DOMAIN vid.tiers :
             /\ vid.tiers[i].tier = order[i]
             /\ i > 1 => vid.tiers[i - 1].exit = "nonzero"
             /\ vid.tiers[i].exit = "zero" =>
                   /\ i = Len(vid.tiers)
                   /\ vid.name \in Range(successful_videos)

C5_Witness ==
    /\ Len(vid.tiers) = 3
    /\ vid.tiers[3].exit = "zero"
    /\ vid.name \in Range(successful_videos)

\* C6: every tier of a video gets the duration planned for the full render, the
\* two text tiers get the caption the selector returned, and however many tiers
\* run the selector was called once and changed at most one cell.
C6_SameArgumentsOneSelection ==
    vid.tiers # <<>> =>
        /\ \A i \in DOMAIN vid.tiers :
              /\ vid.tiers[i].dur = vid.tiers[1].dur
              /\ vid.tiers[i].tier # "no_text" => vid.tiers[i].text = vid.text
        /\ vid.text \notin {None, ""}
        /\ vid.selCalls = 1
        /\ Cardinality(ChangedCells(vid.sheetBefore, sheet)) <= 1

C6_Witness ==
    /\ Len(vid.tiers) = 3
    /\ vid.tiers[1].exit = "nonzero"
    /\ vid.tiers[2].text = "Miss you"
    /\ vid.tiers[3].dur = 250
    /\ vid.selCalls = 1

\* C7: overlay_text.txt exists only while a text tier's tool is running; after a
\* tier has ended, by zero exit, non-zero exit or exception, it does not exist.
C7_CaptionFileRemoved ==
    textFile => pc \in {"full_running", "fallback_running"}

C7_Witness ==
    /\ vid.tiers # <<>>
    /\ LastTier.tier = "fallback"
    /\ LastTier.exit = "exception"
    /\ ~textFile

\* C8: once the startup checks have passed, the video files are the files of the
\* input directory with a video extension, in sorted order; they are processed
\* one at a time in that order; each processed file is in exactly one of the two
\* lists, and at the end every file is, whatever failed before it.
C8_EveryVideoRecordedOnce ==
    (stats.startup = "passed" /\ pc # "find_all_video_files") =>
        /\ Range(video_files) =
              {n \in inputDir : Lower(Suffix(n)) \in video_extensions}
        /\ \A i, j \in DOMAIN video_files :
              i < j => NamePosition(video_files[i]) < NamePosition(video_files[j])
        /\ Range(successful_videos) \cap Range(failed_videos) = {}
        /\ Processed = {video_files[i] : i \in 1..(idx - 1)}
        /\ video_files # <<>> => Len(successful_videos) + Len(failed_videos) = idx - 1
        /\ pc \in {"summary", "exited"} => Processed = Range(video_files)
        /\ pc \notin {"summary", "exited", "process_single_video"} =>
              /\ vid.name = video_files[idx]
              /\ vid.name \notin Processed

C8_Witness ==
    /\ pc = "exited"
    /\ Len(video_files) = 2
    /\ video_files[1] \in Range(failed_videos)
    /\ video_files[2] \in Range(successful_videos)

\* C9: the exit status is 0 exactly when at least one video was processed
\* successfully, and 1 otherwise (startup failures and an empty directory too).
C9_ExitStatus ==
    /\ pc = "exited" =>
          /\ exitStatus \in {0, 1}
          /\ exitStatus = 0 <=> successful_videos # <<>>
    /\ pc # "exited" => exitStatus = None

C9_Witness ==
    /\ pc = "exited"
    /\ exitStatus = 0
    /\ failed_videos # <<>>

\* C10: a failed dependency, authentication, connection or format check ends
\* run() before any processing: nothing is enumerated, probed, rendered or
\* selected and no cell is written; an empty sheet or mismatched headers never
\* pass the format check.
C10_StartupFailureStopsEverything ==
    /\ stats.startup = "failed" =>
          /\ pc = "exited"
          /\ video_files = <<>>
          /\ stats.selects = 0 /\ stats.probes = 0 /\ stats.renders = 0
          /\ stats.writes = 0
          /\ sheet = stats.sheet0
          /\ outputs = {}
          /\ successful_videos = <<>> /\ failed_videos = <<>>
    /\ stats.startup = "passed" =>
          /\ Len(stats.sheet0) > 1
          /\ {Lower(Strip(h)) : h \in Range(stats.sheet0[1])} = Range(expected_headers)
    /\ (stats.selects > 0 \/ stats.probes > 0 \/ stats.renders > 0) =>
          stats.startup = "passed"

C10_Witness ==
    /\ stats.startup = "failed"
    /\ stats.abortedAt = "check_sheet_format"
    /\ Len(sheet) > 1
    /\ "notes" \in Range(sheet[1])
    /\ find_all_video_files(inputDir) # <<>>
    /\ pc = "exited"

\* C11: the inferred type is None exactly when no keyword of the vocabulary
\* occurs in the lower-cased stem; otherwise it is the capitalized form of one
\* keyword that occurs, namely the first one in the iteration order of the
\* vocabulary; a video of type None is recorded failed with no selector call,
\* no render and no change of the sheet.
C11_TypeInference ==
    vid.name # None =>
        LET s == Lower(Stem(vid.name))
            found == {kw \in valid_types : Contains(s, kw)}
            firstAt == CHOOSE i \in DOMAIN typeOrder :
                          /\ typeOrder[i] \in found
                          /\ \A j \in DOMAIN typeOrder : typeOrder[j] \in found => i <= j
        IN /\ Range(typeOrder) = valid_types
           /\ vid.type = None <=> found = {}
           /\ found # {} =>
                 /\ \E kw \in found : vid.type = Capitalize(kw)
                 /\ vid.type = Capitalize(typeOrder[firstAt])
           /\ vid.type = None =>
                 /\ vid.selCalls = 0
                 /\ vid.tiers = <<>>
                 /\ vid.name \in Range(failed_videos)
                 /\ sheet = vid.sheetBefore

C11_Witness ==
    /\ vid.name = "Romantic_SAD.MOV"
    /\ vid.type = "Sad"
    /\ Selected

\* C12: every render tier of a video with stem S and extension E writes to
\* <S>_edited.<E>: the output keeps the extension of the input.
C12_OutputKeepsExtension ==
    \A i \in DOMAIN vid.tiers :
        vid.tiers[i].path = <<Stem(vid.name), "_edited", Suffix(vid.name)>>

\* C13: with two instances on one sheet the selector is not atomic: when both
\* have read the rows before either write landed and both ask for the same type,
\* of which an unused row exists, both mark and return the same row and text.
C13_BothReadFirstBothGetSameRow ==
    ( /\ \A i \in Instances : inst[i].pc = "done"
      /\ \A i \in Instances : inst[i].records = get_all_records(stats.sheet0)
      /\ inst[1].type = inst[2].type
      /\ inst[1].k # 0 ) =>
        /\ inst[1].row = inst[1].k
        /\ inst[2].row = inst[1].row
        /\ inst[2].result = inst[1].result
        /\ inst[1].result # None
        /\ stats.returned = <<inst[1].row, inst[1].row>>

C13_Witness ==
    /\ \A i \in Instances : inst[i].pc = "done"
    /\ \A i \in Instances : inst[i].records = get_all_records(stats.sheet0)
    /\ stats.sheet0[1] = expected_headers
    /\ inst[1].row = 1 /\ inst[2].row = 1
    /\ inst[1].result = "Miss you" /\ inst[2].result = "Miss you"

\* C14: when get_all_records or update_cell raises inside
\* find_next_overlay_text, the selector returns None after that one call, the
\* video is recorded as failed with no render invoked, and run() goes on with
\* the next video when there is one.
C14_RemoteFailureFailsOnlyThisVideo ==
    (Selected /\ selMsg = "error") =>
        /\ vid.text = None
        /\ vid.row = 0
        /\ vid.selCalls = 1
        /\ vid.tiers = <<>>
        /\ vid.name \in Range(failed_videos)
        /\ vid.name \notin Range(successful_videos)
        /\ \A o \in outputs : o.src # vid.name
        /\ pc \in {"process_single_video", "summary", "exited"}
        /\ idx > 0 /\ video_files[idx - 1] = vid.name
        /\ idx <= Len(video_files) => pc = "process_single_video"

C14_Witness ==
    /\ Selected
    /\ selMsg = "error"
    /\ FirstMatch(get_all_records(sheet), vid.type) # 0
    /\ pc = "process_single_video"
    /\ vid.name \in Range(failed_videos)

\* C15 as stated: every row consumed during the batch belongs to a video that
\* ends up in the succeeded list.
C15_ConsumedOnlyForSucceeded ==
    (vid.row # 0 /\ vid.name \in Processed) =>
        vid.name \in Range(successful_videos)

\* C15, amended: a row is consumed exactly for the videos whose selector call
\* found a row, at selection and whatever happens afterwards: the one write goes
\* to column 1 of that row's sheet line and is never undone, so a video that
\* fails on an empty text or at the render stage keeps its row consumed, while a
\* video that fails for want of a type, of a row, or on a remote error changes
\* nothing; every succeeded video has consumed a row.
C15_ConsumedAtSelection ==
    vid.name # None =>
        /\ vid.row # 0 <=> (Selected /\ selMsg = "found")
        /\ vid.row = 0 => sheet = vid.sheetBefore
        /\ vid.row # 0 =>
              /\ ChangedCells(vid.sheetBefore, sheet) \subseteq {<<vid.row + 1, 1>>}
              /\ sheet[vid.row + 1][1] = "TRUE"
              /\ vid.text = Strip(RecordGet(get_all_records(vid.sheetBefore)[vid.row],
                                            "overlay text"))
        /\ vid.name \in Range(successful_videos) =>
              /\ vid.row # 0
              /\ vid.text \notin {None, ""}
        /\ (vid.name \in Range(failed_videos) /\ vid.row # 0) =>
              \/ vid.text = "" /\ vid.tiers = <<>>
              \/ vid.tiers # <<>> /\ LastTier.exit \in {"nonzero", "exception"}

C15_Witness ==
    /\ vid.row # 0
    /\ vid.name \in Range(failed_videos)
    /\ Len(vid.tiers) = 3
    /\ LastTier.exit = "nonzero"
    /\ sheet # vid.sheetBefore
    /\ ColumnNamed(sheet, "used?") = 1
    /\ sheet[vid.row + 1][1] = "TRUE"

\* C16: distinct input files of one batch are rendered to distinct output
\* paths, so the output of every succeeded video is still its own at the end.
C16_DistinctInputsDistinctOutputs ==
    /\ \A a, b \in Range(video_files) : a # b => output_path(a) # output_path(b)
    /\ \A n \in Range(successful_videos) : \E o \in outputs : o.src = n

====
